---- MODULE Spec2Model ----
(***************************************************************************)
(* Model of programs/fungible-entangler/src/instructions/swap/common.rs:   *)
(* the swap eligibility gates and amount resolution of swap_shared_logic,  *)
(* called repeatedly against a fixed parent/child entangler pair with a    *)
(* clock sysvar that never runs backwards.                                 *)
(***************************************************************************)
EXTENDS Integers, Sequences, FiniteSets, TLC

\* Bounds of the model.
MaxTime == 2
MaxBal == 1

\* ---------------------------------------------------------------------
\* Rust Option<T>: None is the empty tuple, Some(x) the one-element tuple.
None == <<>>
Some(x) == <<x>>
is_some(o) == o # None
is_none(o) == o = None
unwrap(o) == o[1]

\* PartialOrd of Option<T>, `a > b`: None sorts before every Some.
OptionGt(a, b) == is_some(a) /\ (is_none(b) \/ unwrap(a) > unwrap(b))

\* i64 unix timestamps, u64 token amounts, within the bounds.
Times == 0..MaxTime
Balances == 0..MaxBal
Amounts == 0..(MaxBal + 1)

OptionOf(S) == {None} \cup {Some(x) : x \in S}

\* FungibleParentEntanglerV0 / FungibleChildEntanglerV0: the fields read.
Entanglers == [go_live_unix_time : Times, freeze_swap_unix_time : OptionOf(Times)]

\* SwapV0Args { amount: Option<u64>, all: Option<bool> }
SwapV0Args == [all : OptionOf(BOOLEAN), amount : OptionOf(Amounts)]

\* Result<SwapAmount>: Ok(SwapAmount { amount }), Err(code), or a panic.
Ok(n) == [kind |-> "Ok", amount |-> n, err |-> "-"]
Err(e) == [kind |-> "Err", amount |-> 0, err |-> e]
Panic == [kind |-> "Panic", amount |-> 0, err |-> "-"]
NotCalled == [kind |-> "NotCalled", amount |-> 0, err |-> "-"]

ErrorCode == {"InvalidArgs", "ParentNotLiveYet", "ChildNotLiveYet",
              "ParentSwapFrozen", "ChildSwapFrozen", "TokenAccountAmountTooLow"}

\* ---------------------------------------------------------------------
\* The gates of swap_shared_logic.

ArgsValid_IsSomeOnly(a) == is_some(a.all) \/ is_some(a.amount)

\* (args.all.is_some() && args.all == Some(true)) || args.amount.is_some()
ArgsValid(a) == (is_some(a.all) /\ a.all = Some(TRUE)) \/ is_some(a.amount)

IsLive_Inclusive(go_live, now) == go_live <= now

\* entangler.go_live_unix_time < clock.unix_timestamp
IsLive(go_live, now) == go_live < now

NotFrozen_Inclusive(freeze, now) == is_none(freeze) \/ ~OptionGt(Some(now), freeze)

NotFrozen_Flipped(freeze, now) == is_none(freeze) \/ OptionGt(Some(now), freeze)

NotFrozen_OnlyAtInstant(freeze, now) == is_none(freeze) \/ freeze # Some(now)

\* freeze_swap_unix_time.is_none() || freeze_swap_unix_time > Some(clock.unix_timestamp)
NotFrozen(freeze, now) == is_none(freeze) \/ OptionGt(freeze, Some(now))

ResolveAmount_AllPrefersAmount(b, s, a) ==
  IF a.all = Some(TRUE) /\ is_none(a.amount)
  THEN Ok(IF s > b THEN b ELSE s)
  ELSE IF is_none(a.amount) THEN Panic
       ELSE IF b >= unwrap(a.amount) THEN Ok(unwrap(a.amount))
            ELSE Err("TokenAccountAmountTooLow")

ResolveAmount_ChecksSource(b, s, a) ==
  IF a.all = Some(TRUE)
  THEN Ok(IF s > b THEN b ELSE s)
  ELSE IF is_none(a.amount) THEN Panic
       ELSE IF b >= unwrap(a.amount) /\ s >= unwrap(a.amount) THEN Ok(unwrap(a.amount))
            ELSE Err("TokenAccountAmountTooLow")

\* The if/else that assigns `amount`; unwrap() of None panics.
ResolveAmount(b, s, a) ==
  IF a.all = Some(TRUE)
  THEN Ok(IF s > b THEN b ELSE s)
  ELSE IF is_none(a.amount) THEN Panic
       ELSE IF b >= unwrap(a.amount) THEN Ok(unwrap(a.amount))
            ELSE Err("TokenAccountAmountTooLow")

swap_shared_logic_ChildFirst(p, c, b, s, now, a) ==
  IF ~ArgsValid(a) THEN Err("InvalidArgs")
  ELSE IF ~IsLive(c.go_live_unix_time, now) THEN Err("ChildNotLiveYet")
  ELSE IF ~IsLive(p.go_live_unix_time, now) THEN Err("ParentNotLiveYet")
  ELSE IF ~NotFrozen(p.freeze_swap_unix_time, now) THEN Err("ParentSwapFrozen")
  ELSE IF ~NotFrozen(c.freeze_swap_unix_time, now) THEN Err("ChildSwapFrozen")
  ELSE ResolveAmount(b, s, a)

swap_shared_logic_NoChildFreeze(p, c, b, s, now, a) ==
  IF ~ArgsValid(a) THEN Err("InvalidArgs")
  ELSE IF ~IsLive(p.go_live_unix_time, now) THEN Err("ParentNotLiveYet")
  ELSE IF ~IsLive(c.go_live_unix_time, now) THEN Err("ChildNotLiveYet")
  ELSE IF ~NotFrozen(p.freeze_swap_unix_time, now) THEN Err("ParentSwapFrozen")
  ELSE ResolveAmount(b, s, a)

\* swap_shared_logic: each require! returns its error when its condition fails.
swap_shared_logic(p, c, b, s, now, a) ==
  IF ~ArgsValid(a) THEN Err("InvalidArgs")
  ELSE IF ~IsLive(p.go_live_unix_time, now) THEN Err("ParentNotLiveYet")
  ELSE IF ~IsLive(c.go_live_unix_time, now) THEN Err("ChildNotLiveYet")
  ELSE IF ~NotFrozen(p.freeze_swap_unix_time, now) THEN Err("ParentSwapFrozen")
  ELSE IF ~NotFrozen(c.freeze_swap_unix_time, now) THEN Err("ChildSwapFrozen")
  ELSE ResolveAmount(b, s, a)

\* ---------------------------------------------------------------------
\* State: the two entangler accounts, and the inputs and outcome of the most
\* recent call (clock sysvar reading, base and source balances, arguments).
VARIABLES parent_entangler, child_entangler, clock, base, source, args, result

vars == <<parent_entangler, child_entangler, clock, base, source, args, result>>

Init ==
  /\ parent_entangler \in Entanglers
  /\ child_entangler \in Entanglers
  /\ clock = 0
  /\ base = 0
  /\ source = 0
  /\ args = [all |-> None, amount |-> None]
  /\ result = NotCalled

\* One call of swap_shared_logic at clock reading t, which never decreases.
Swap(t, b, s, a) ==
  /\ t >= clock
  /\ clock' = t
  /\ base' = b
  /\ source' = s
  /\ args' = a
  /\ result' = swap_shared_logic(parent_entangler, child_entangler, b, s, t, a)
  /\ UNCHANGED <<parent_entangler, child_entangler>>

Next == \E t \in Times, b \in Balances, s \in Balances, a \in SwapV0Args : Swap(t, b, s, a)

Spec == Init /\ [][Next]_vars

\* ---------------------------------------------------------------------
\* Vocabulary of the properties, stated on the inputs of the last call.

Called == result.kind # "NotCalled"

WellFormed == args.all = Some(TRUE) \/ args.amount # None

NotLiveYet(e, now) == e.go_live_unix_time >= now

FrozenAt(e, now) ==
  \E t \in Times : e.freeze_swap_unix_time = Some(t) /\ t <= now

BothLive == ~NotLiveYet(parent_entangler, clock) /\ ~NotLiveYet(child_entangler, clock)

GatesPass ==
  /\ WellFormed
  /\ BothLive
  /\ ~FrozenAt(parent_entangler, clock)
  /\ ~FrozenAt(child_entangler, clock)

Min(x, y) == IF x < y THEN x ELSE y

\* C1: the gates are evaluated in the order request well-formedness, parent
\* liveness, child liveness, parent freeze, child freeze, and the first failing
\* gate decides the rejection; TokenAccountAmountTooLow only after all five pass.
C1_GateOrder ==
  Called =>
    IF ~WellFormed THEN result = Err("InvalidArgs")
    ELSE IF NotLiveYet(parent_entangler, clock) THEN result = Err("ParentNotLiveYet")
    ELSE IF NotLiveYet(child_entangler, clock) THEN result = Err("ChildNotLiveYet")
    ELSE IF FrozenAt(parent_entangler, clock) THEN result = Err("ParentSwapFrozen")
    ELSE IF FrozenAt(child_entangler, clock) THEN result = Err("ChildSwapFrozen")
    ELSE result.kind = "Ok" \/ result = Err("TokenAccountAmountTooLow")

\* Both liveness gates and the parent freeze gate fail at once; the parent
\* liveness rejection is the one reported.
C1_Witness ==
  /\ Called
  /\ WellFormed
  /\ NotLiveYet(parent_entangler, clock)
  /\ NotLiveYet(child_entangler, clock)
  /\ FrozenAt(parent_entangler, clock)
  /\ result = Err("ParentNotLiveYet")

\* C2: with all = Some(true) and all five gates passing the call succeeds with
\* min(source, base), whatever args.amount is (absent, or any value).
C2_AllIsMin ==
  (Called /\ args.all = Some(TRUE) /\ GatesPass) =>
    /\ result = Ok(Min(source, base))
    /\ \A am \in OptionOf(Amounts) :
         swap_shared_logic(parent_entangler, child_entangler, base, source, clock,
                           [args EXCEPT !.amount = am]) = result

\* all = Some(true) together with an amount larger than both balances.
C2_Witness ==
  /\ Called
  /\ GatesPass
  /\ args.all = Some(TRUE)
  /\ is_some(args.amount)
  /\ unwrap(args.amount) > base
  /\ unwrap(args.amount) > source
  /\ source < base
  /\ result = Ok(source)

\* C3: a fixed-amount request passing the five gates succeeds iff
\* base >= n, with exactly n, else TokenAccountAmountTooLow; the source
\* balance plays no part.
C3_FixedAmount ==
  (Called /\ args.all # Some(TRUE) /\ is_some(args.amount) /\ GatesPass) =>
    /\ IF base >= unwrap(args.amount)
       THEN result = Ok(unwrap(args.amount))
       ELSE result = Err("TokenAccountAmountTooLow")
    /\ \A s2 \in Balances :
         swap_shared_logic(parent_entangler, child_entangler, base, s2, clock, args) = result

\* A fixed amount above the source balance is resolved unclamped.
C3_Witness ==
  /\ Called
  /\ GatesPass
  /\ args.all # Some(TRUE)
  /\ is_some(args.amount)
  /\ unwrap(args.amount) > source
  /\ result = Ok(unwrap(args.amount))

\* C4 as stated: whenever the parent's or the child's go-live time is >= now,
\* the call fails with ParentNotLiveYet or ChildNotLiveYet, for every request
\* shape.
C4_Original ==
  (Called /\ (NotLiveYet(parent_entangler, clock) \/ NotLiveYet(child_entangler, clock))) =>
    result \in {Err("ParentNotLiveYet"), Err("ChildNotLiveYet")}

\* C4 amended: whenever the parent's or the child's go-live time is >= now the
\* call fails, regardless of balances: with ParentNotLiveYet or ChildNotLiveYet
\* when the request is well-formed, with InvalidArgs when it is not.
C4_NotLiveRejected ==
  (Called /\ (NotLiveYet(parent_entangler, clock) \/ NotLiveYet(child_entangler, clock))) =>
    IF WellFormed
    THEN result \in {Err("ParentNotLiveYet"), Err("ChildNotLiveYet")}
    ELSE result = Err("InvalidArgs")

\* A well-formed request at the child's exact go-live instant, parent live.
C4_Witness ==
  /\ Called
  /\ WellFormed
  /\ ~NotLiveYet(parent_entangler, clock)
  /\ child_entangler.go_live_unix_time = clock
  /\ base > 0
  /\ result = Err("ChildNotLiveYet")

\* C5 as stated: an entangler whose freeze time is Some(t), t <= now, makes
\* the call fail with that entangler's own *SwapFrozen rejection.
C5_Original ==
  Called =>
    /\ FrozenAt(parent_entangler, clock) => result = Err("ParentSwapFrozen")
    /\ FrozenAt(child_entangler, clock) => result = Err("ChildSwapFrozen")

\* C5 amended: a frozen entangler makes the call fail; when the request is
\* well-formed and both go-live times have passed the rejection is
\* ParentSwapFrozen if the parent is frozen, and ChildSwapFrozen if the child
\* is frozen and the parent is not.
C5_FrozenRejected ==
  (Called /\ (FrozenAt(parent_entangler, clock) \/ FrozenAt(child_entangler, clock))) =>
    /\ result.kind = "Err"
    /\ (WellFormed /\ BothLive) =>
         result = IF FrozenAt(parent_entangler, clock)
                  THEN Err("ParentSwapFrozen")
                  ELSE Err("ChildSwapFrozen")

\* Go-live has passed for both, the child froze strictly before now.
C5_Witness ==
  /\ Called
  /\ WellFormed
  /\ BothLive
  /\ ~FrozenAt(parent_entangler, clock)
  /\ is_some(child_entangler.freeze_swap_unix_time)
  /\ unwrap(child_entangler.freeze_swap_unix_time) < clock
  /\ result = Err("ChildSwapFrozen")

\* C6: with a well-formed request and the other gates passing, go_live = now
\* is rejected and go_live = now - 1 passes the liveness gate; freeze =
\* Some(now) is rejected and freeze = Some(now + 1) is allowed.
C6_Boundaries ==
  (Called /\ WellFormed) =>
    /\ parent_entangler.go_live_unix_time = clock => result = Err("ParentNotLiveYet")
    /\ parent_entangler.go_live_unix_time = clock - 1 => result # Err("ParentNotLiveYet")
    /\ ~NotLiveYet(parent_entangler, clock) =>
         /\ child_entangler.go_live_unix_time = clock => result = Err("ChildNotLiveYet")
         /\ child_entangler.go_live_unix_time = clock - 1 => result # Err("ChildNotLiveYet")
    /\ BothLive =>
         /\ parent_entangler.freeze_swap_unix_time = Some(clock) =>
              result = Err("ParentSwapFrozen")
         /\ parent_entangler.freeze_swap_unix_time = Some(clock + 1) =>
              /\ result # Err("ParentSwapFrozen")
              /\ ~FrozenAt(child_entangler, clock) =>
                   (result.kind = "Ok" \/ result = Err("TokenAccountAmountTooLow"))
         /\ ~FrozenAt(parent_entangler, clock) =>
              /\ child_entangler.freeze_swap_unix_time = Some(clock) =>
                   result = Err("ChildSwapFrozen")
              /\ child_entangler.freeze_swap_unix_time = Some(clock + 1) =>
                   /\ result # Err("ChildSwapFrozen")
                   /\ (result.kind = "Ok" \/ result = Err("TokenAccountAmountTooLow"))

\* Both boundaries on their permitting side: live since now - 1, freezing at
\* now + 1, and the amount is resolved.
C6_Witness ==
  /\ Called
  /\ parent_entangler.go_live_unix_time = clock - 1
  /\ child_entangler.go_live_unix_time = clock - 1
  /\ parent_entangler.freeze_swap_unix_time = Some(clock + 1)
  /\ child_entangler.freeze_swap_unix_time = Some(clock + 1)
  /\ result.kind = "Ok"

\* C7: an amount is returned only when both entanglers are Active at the
\* supplied timestamp: go-live strictly before now, freeze absent or strictly
\* after now, for parent and child.
C7_OkOnlyWhenActive ==
  result.kind = "Ok" =>
    /\ parent_entangler.go_live_unix_time < clock
    /\ child_entangler.go_live_unix_time < clock
    /\ \A e \in {parent_entangler, child_entangler} :
         \/ e.freeze_swap_unix_time = None
         \/ unwrap(e.freeze_swap_unix_time) > clock

\* An amount is returned while both entanglers have a freeze time configured.
C7_Witness ==
  /\ result.kind = "Ok"
  /\ result.amount > 0
  /\ is_some(parent_entangler.freeze_swap_unix_time)
  /\ is_some(child_entangler.freeze_swap_unix_time)

\* Per-entangler state at a clock reading.
EntanglerState(e, now) ==
  IF FrozenAt(e, now) THEN "Frozen"
  ELSE IF NotLiveYet(e, now) THEN "Pending"
  ELSE "Active"

Rank(st) == CASE st = "Pending" -> 0 [] st = "Active" -> 1 [] st = "Frozen" -> 2

\* C8: with fixed configurations and non-decreasing timestamps, an entangler
\* that is Frozen stays Frozen, no call made from then on returns an amount,
\* and the per-entangler state never moves backwards in
\* Pending -> Active -> Frozen.
C8_FreezeOneWay ==
  [][ /\ \A e \in {parent_entangler, child_entangler} :
           /\ FrozenAt(e, clock) => (FrozenAt(e, clock') /\ result'.kind # "Ok")
           /\ Rank(EntanglerState(e, clock')) >= Rank(EntanglerState(e, clock))
      /\ parent_entangler' = parent_entangler
      /\ child_entangler' = child_entangler ]_vars

\* A well-formed call made strictly after the parent's freeze instant, with
\* go-live passed, is rejected as frozen.
C8_Witness ==
  /\ Called
  /\ WellFormed
  /\ BothLive
  /\ is_some(parent_entangler.freeze_swap_unix_time)
  /\ unwrap(parent_entangler.freeze_swap_unix_time) < clock
  /\ parent_entangler.go_live_unix_time < unwrap(parent_entangler.freeze_swap_unix_time)
  /\ result = Err("ParentSwapFrozen")

\* C10: every call ends in a resolved amount or one of the six rejections and
\* never panics: the unwrap of args.amount is only reached with an amount.
C10_NoPanic ==
  Called =>
    /\ result.kind \in {"Ok", "Err"}
    /\ result.kind = "Err" => result.err \in ErrorCode
    /\ result.kind = "Ok" => result.amount \in Amounts
    /\ (result.kind = "Ok" /\ args.all # Some(TRUE)) => is_some(args.amount)

\* all = Some(false) without an amount, every timing gate passing: rejected
\* as InvalidArgs before the unwrap.
C10_Witness ==
  /\ Called
  /\ args.all = Some(FALSE)
  /\ args.amount = None
  /\ BothLive
  /\ ~FrozenAt(parent_entangler, clock)
  /\ ~FrozenAt(child_entangler, clock)
  /\ result = Err("InvalidArgs")

====
